---- MODULE Spec2Model ----
(***************************************************************************)
(* Protocol (structural subtyping) assignability of protocols.ts:          *)
(* canAssignClassToProtocol, canAssignClassToProtocolInternal and          *)
(* canAssignModuleToProtocol, with the module-level guard stack            *)
(* protocolAssignmentStack.  The functions are recursive through the type  *)
(* evaluator, so every call in flight is a frame of `frames`; a frame      *)
(* advances one protocol member at a time and waits in "await" while the   *)
(* evaluator works for it.                                                 *)
(***************************************************************************)
EXTENDS Integers, Sequences, FiniteSets, TLC

VARIABLES
    protocolAssignmentStack,  \* the module-level guard stack (line 49)
    frames,                   \* calls in flight, outermost first
    result,                   \* what the last finished call or collaborator handed back
    classes                   \* details of every declared class; protocols.ts only reads them

vars == <<protocolAssignmentStack, frames, result, classes>>

(***************************************************************************)
(* Types.  A class type is a generic class, an optional type argument and  *)
(* the identity of the object that represents it (two objects can stand    *)
(* for the same type).                                                     *)
(***************************************************************************)
maxTypeRecursionCount == 16

NoArg == -1
\* no class: an undefined metaclass, an undefined placeholder
NoClass == ""
\* the deepest type argument of a type handed in from outside
MaxTopArg == 0
\* no comparison reaches a type argument deeper than this
MaxArg == maxTypeRecursionCount + MaxTopArg + 2

ClassT(cls, arg, oid) == [cls |-> cls, arg |-> arg, oid |-> oid]

\* Same generic class and same type arguments, whatever object holds them.
isTypeSame(t1, t2) == t1.cls = t2.cls /\ t1.arg = t2.arg

EnforceInvariance == "EnforceInvariance"
RetainLiteralsForTypeVar == "RetainLiteralsForTypeVar"
DefaultFlags == {}

(***************************************************************************)
(* Symbols and declarations.                                               *)
(***************************************************************************)
VarDecl(final, typed) == [type |-> "Variable", isFinal |-> final, typed |-> typed]
FnDecl == [type |-> "Function", isFinal |-> FALSE, typed |-> TRUE]

\* A declared type as written in the class body: kind "obj" is an instance
\* of class cls, "fn" a method returning one, "prop" a property whose getter
\* returns one, "none" no declared type.  grow: the type argument is the
\* owner's type argument nested one level deeper.
MT(kind, cls, grow) == [kind |-> kind, cls |-> cls, grow |-> grow]
NoType == MT("none", "object", FALSE)

\* getter: a property has an fget whose return type the evaluator can give.
Sym(name, decls, mt) ==
    [name |-> name, decls |-> decls, mt |-> mt,
     classMember |-> TRUE, ignored |-> FALSE, classVar |-> FALSE, getter |-> TRUE]

Var(name, cls) == Sym(name, <<VarDecl(FALSE, TRUE)>>, MT("obj", cls, FALSE))
FinalVar(name, cls) == Sym(name, <<VarDecl(TRUE, TRUE)>>, MT("obj", cls, FALSE))
Method(name, cls) == Sym(name, <<FnDecl>>, MT("fn", cls, FALSE))
Property(name, cls) == Sym(name, <<FnDecl>>, MT("prop", cls, FALSE))

Class(mro, isProtocol, fields) ==
    [isClass |-> TRUE, mro |-> mro, isProtocol |-> isProtocol, fields |-> fields,
     metaclass |-> NoClass, typeParameters |-> 0, isTypedDict |-> FALSE, literal |-> FALSE]

Plain(c) == Class(<<c, "object">>, FALSE, <<>>)

(***************************************************************************)
(* The classes of the checked program.                                     *)
(***************************************************************************)
DetailsOf(c) ==
    CASE c = "object" -> Class(<<"object">>, FALSE, <<>>)
      [] c = "Unknown" -> [Class(<<>>, FALSE, <<>>) EXCEPT !.isClass = FALSE]
      [] c \in {"int", "float", "str", "bool"} -> Plain(c)
      \* a protocol that refers to itself
      [] c = "PSelf" -> Class(<<"PSelf", "object">>, TRUE, <<Method("m", "PSelf")>>)
      [] c = "CSelf" -> Class(<<"CSelf", "object">>, FALSE, <<Method("m", "CSelf")>>)
      [] c = "COther" -> Class(<<"COther", "object">>, FALSE, <<Method("m", "CSelf")>>)
      \* a generic protocol whose member refers to a deeper specialization
      [] c = "PGrow" ->
            [Class(<<"PGrow", "object">>, TRUE,
                   <<Sym("m", <<FnDecl>>, MT("fn", "PGrow", TRUE))>>)
               EXCEPT !.typeParameters = 1]
      [] c = "CGrow" ->
            [Class(<<"CGrow", "object">>, FALSE,
                   <<Sym("m", <<FnDecl>>, MT("fn", "CGrow", TRUE))>>)
               EXCEPT !.typeParameters = 1]
      \* a protocol with a mutable variable of its own type
      [] c = "PNode" -> Class(<<"PNode", "object">>, TRUE, <<Var("next", "PNode")>>)
      [] c = "CNode" -> Class(<<"CNode", "object">>, FALSE, <<Var("next", "CNode")>>)
      \* a mutable variable whose declared type is a protocol
      [] c = "PRef" -> Class(<<"PRef", "object">>, TRUE, <<Var("r", "PSelf")>>)
      [] c = "CRef" -> Class(<<"CRef", "object">>, FALSE, <<Var("r", "CSelf")>>)
      \* a protocol hierarchy with every kind of member
      [] c = "PDerived" ->
            [Class(<<"PDerived", "PBase", "Unknown", "NonProto", "object">>, TRUE,
                   <<Var("x", "int"), Var("__slots__", "str"), Method("m", "int")>>)
               EXCEPT !.typeParameters = 1]
      [] c = "PBase" ->
            Class(<<"PBase", "NonProto", "object">>, TRUE,
                  <<Var("x", "str"),
                    FinalVar("y", "int"),
                    Property("p", "int"),
                    Method("__class_getitem__", "int"),
                    [Var("ig", "int") EXCEPT !.ignored = TRUE],
                    [Var("iv", "int") EXCEPT !.classMember = FALSE],
                    [Var("cv", "int") EXCEPT !.classVar = TRUE],
                    Sym("u", <<VarDecl(FALSE, FALSE)>>, NoType),
                    [Sym("ucv", <<VarDecl(FALSE, FALSE)>>, NoType)
                       EXCEPT !.classVar = TRUE]>>)
      [] c = "NonProto" -> Class(<<"NonProto", "object">>, FALSE, <<Var("w", "int")>>)
      [] c = "CParent" ->
            Class(<<"CParent", "object">>, FALSE,
                  <<FinalVar("y", "int"), Property("p", "int"), Var("u", "int"),
                    [Var("ucv", "int") EXCEPT !.classVar = TRUE],
                    Property("q", "int")>>)
      [] c = "CFull" ->
            Class(<<"CFull", "CParent", "object">>, FALSE,
                  <<Var("x", "int"), Method("m", "int"),
                    [Var("cv", "int") EXCEPT !.classVar = TRUE]>>)
      [] c = "CLit" ->
            [Class(<<"CLit", "CFull", "CParent", "object">>, FALSE, <<>>)
               EXCEPT !.literal = TRUE]
      [] c = "CMiss" -> Class(<<"CMiss", "object">>, FALSE, <<Method("m", "int")>>)
      [] c = "CBad" ->
            Class(<<"CBad", "object">>, FALSE,
                  <<Var("x", "bool"), Var("y", "int"), Var("p", "str"),
                    Method("m", "str"), Var("__slots__", "int"), Var("u", "int"),
                    [Var("cv", "int") EXCEPT !.classMember = FALSE],
                    Var("q", "int")>>)
      [] c = "CFinX" ->
            Class(<<"CFinX", "CParent", "object">>, FALSE,
                  <<FinalVar("x", "int"), Method("m", "int"),
                    [Var("cv", "int") EXCEPT !.classVar = TRUE]>>)
      [] c = "CFinU" ->
            Class(<<"CFinU", "CFull", "CParent", "object">>, FALSE,
                  <<FinalVar("u", "int")>>)
      \* candidates that keep a class variable of the protocol on the instance
      [] c = "CInstCv" ->
            Class(<<"CInstCv", "CFull", "CParent", "object">>, FALSE,
                  <<[Var("cv", "int") EXCEPT !.classMember = FALSE]>>)
      [] c = "CInstU" ->
            Class(<<"CInstU", "CFull", "CParent", "object">>, FALSE,
                  <<[Var("ucv", "str") EXCEPT !.classMember = FALSE]>>)
      [] c = "Meta" ->
            Class(<<"Meta", "object">>, FALSE,
                  <<Method("__class_getitem__", "int"), Method("m", "int")>>)
      [] c = "CMeta" ->
            [Class(<<"CMeta", "CParent", "object">>, FALSE,
                   <<Var("x", "int"), Method("m", "str"),
                     [Var("cv", "int") EXCEPT !.classVar = TRUE]>>)
               EXCEPT !.metaclass = "Meta"]
      \* a class whose metaclass could not be evaluated
      [] c = "CAnyMeta" ->
            [Class(<<"CAnyMeta", "CParent", "object">>, FALSE,
                   <<Var("x", "int"), Method("m", "int"),
                     [Var("cv", "int") EXCEPT !.classVar = TRUE]>>)
               EXCEPT !.metaclass = "Unknown"]
      \* a generic class whose members are those of its metaclass, declared
      \* there with the type parameter of the metaclass
      [] c = "GBox" -> [Plain("GBox") EXCEPT !.typeParameters = 1]
      [] c = "MetaG" ->
            Class(<<"MetaG", "object">>, FALSE,
                  <<Sym("v", <<VarDecl(FALSE, TRUE)>>, MT("obj", "GBox", TRUE)),
                    Sym("m", <<FnDecl>>, MT("fn", "GBox", TRUE))>>)
      [] c = "CG" ->
            [Class(<<"CG", "object">>, FALSE, <<>>)
               EXCEPT !.typeParameters = 1, !.metaclass = "MetaG"]
      [] c = "PMv" -> Class(<<"PMv", "object">>, TRUE, <<Var("v", "GBox")>>)
      [] c = "PMm" -> Class(<<"PMm", "object">>, TRUE, <<Method("m", "GBox")>>)
      \* a protocol of properties, one of them without a getter
      [] c = "PProp" ->
            Class(<<"PProp", "object">>, TRUE,
                  <<Property("p", "int"), [Property("q", "int") EXCEPT !.getter = FALSE]>>)
      \* a TypedDict class and the placeholder the evaluator supplies for it
      [] c = "TD" ->
            [Class(<<"TD", "object">>, FALSE, <<Var("x", "int"), Method("m", "int")>>)
               EXCEPT !.isTypedDict = TRUE]
      [] c = "_TypedDict" ->
            Class(<<"_TypedDict", "object">>, FALSE, <<Method("m", "int")>>)
      \* generic protocols whose members use the type parameter T
      [] c = "Protocol" ->
            [Class(<<"Protocol", "object">>, TRUE, <<>>) EXCEPT !.typeParameters = 1]
      [] c = "SRet" ->
            [Class(<<"SRet", "object">>, TRUE,
                   <<Method("m", "T"), FinalVar("f", "T"), Property("p", "T"),
                     [Var("ig", "T") EXCEPT !.ignored = TRUE],
                     [Var("iv", "T") EXCEPT !.classMember = FALSE],
                     Sym("u", <<VarDecl(FALSE, FALSE)>>, NoType)>>)
               EXCEPT !.typeParameters = 1]
      [] c = "SVar" ->
            [Class(<<"SVar", "object">>, TRUE, <<Var("x", "T"), Method("m", "T")>>)
               EXCEPT !.typeParameters = 1]
      [] c = "SFixed" -> Class(<<"SFixed", "object">>, TRUE, <<Var("k", "int")>>)
      [] c = "SChild" ->
            [Class(<<"SChild", "SRet", "SFixed", "NonProto", "object">>, TRUE,
                   <<Method("n", "T")>>)
               EXCEPT !.typeParameters = 1]
      [] c = "SBadChild" ->
            [Class(<<"SBadChild", "SChild", "SRet", "SFixed", "NonProto", "SVar", "object">>,
                   TRUE, <<Property("q", "T")>>)
               EXCEPT !.typeParameters = 1]
      \* a data-shaped protocol for modules
      [] c = "PData" ->
            [Class(<<"PData", "PDataBase", "object">>, TRUE,
                   <<Var("x", "int"), Var("__slots__", "str")>>)
               EXCEPT !.typeParameters = 1]
      [] c = "PDataBase" ->
            Class(<<"PDataBase", "object">>, TRUE,
                  <<Var("x", "str"), Method("m", "int")>>)

ClassNames ==
    {"object", "Unknown", "int", "float", "str", "bool", "PSelf", "CSelf", "COther",
     "PGrow", "CGrow", "PNode", "CNode", "PRef", "CRef", "PDerived", "PBase", "NonProto", "CParent",
     "CFull", "CLit", "CMiss", "CBad", "CFinX", "CFinU", "CInstCv", "CInstU", "Meta", "CMeta", "CAnyMeta", "PProp", "TD", "_TypedDict",
     "GBox", "MetaG", "CG", "PMv", "PMm",
     "PData", "PDataBase", "Protocol", "SRet", "SVar", "SFixed", "SChild", "SBadChild"}
ClassTable == [c \in ClassNames |-> DetailsOf(c)]
Details(c) == classes[c]

Protocols == {"PSelf", "PGrow", "PNode", "PRef", "PDerived", "PBase", "PData", "PProp",
              "PMv", "PMm"}
Candidates == {"PSelf", "CSelf", "COther", "CGrow", "CNode", "CRef", "CFull", "CLit",
               "CMiss", "CBad", "CFinX", "CFinU", "CInstCv", "CInstU", "CMeta", "CAnyMeta",
               "TD", "CG"}

\* details.baseClasses of the generic protocols, as written in the class
\* statement.
BaseClassesOf(c) ==
    CASE c \in {"SRet", "SVar", "SFixed"} -> <<"Protocol">>
      [] c = "SChild" -> <<"SRet", "SFixed", "NonProto", "Protocol">>
      [] c = "SBadChild" -> <<"SChild", "Unknown", "SVar", "Protocol">>
      [] OTHER -> <<"object">>

BaseClassTable == [c \in ClassNames |-> BaseClassesOf(c)]
baseClasses(c) == BaseClassTable[c]

\* The protocols whose variance is validated, and the classes that type
\* arguments 0, 1, 2 stand for when they replace the type parameter T.
SelfProtocols == {"SRet", "SVar", "SChild", "SBadChild"}
SelfTypeArgs == 0..2
TypeArgumentClass(arg) ==
    CASE arg = 0 -> "bool" [] arg = 1 -> "int" [] arg = 2 -> "float" [] OTHER -> "object"

\* The member tables of the modules of the checked program.
ModuleFieldsOf(m) ==
    CASE m = "ModFull" -> <<Var("x", "int"), Method("m", "int"), Var("__slots__", "str")>>
      [] m = "ModNoSlots" -> <<Var("x", "int"), Method("m", "int")>>
      [] m = "ModMiss" -> <<Method("m", "str"), Var("__slots__", "str")>>
      [] m = "ModBool" -> <<Var("x", "bool"), Method("m", "int"), Var("__slots__", "str")>>

Modules == {"ModFull", "ModNoSlots", "ModMiss", "ModBool"}
ModuleTable == [m \in Modules |-> ModuleFieldsOf(m)]
ModuleFields(m) == ModuleTable[m]

(***************************************************************************)
(* Helpers of typeUtils.ts and of the type evaluator, as far as the        *)
(* comparison depends on them.                                             *)
(***************************************************************************)
Min(S) == CHOOSE m \in S : \A n \in S : m <= n

HasField(fields, name) == \E i \in 1..Len(fields) : fields[i].name = name
GetField(fields, name) ==
    fields[Min({i \in 1..Len(fields) : fields[i].name = name})]

NotFound ==
    [found |-> FALSE, symbol |-> Sym("", <<>>, NoType), classType |-> ClassT(NoClass, NoArg, 1)]

\* The first class of the MRO whose own table has the name; classType is
\* that class, specialized by the class the lookup was made on.
lookUpClassMember(classType, name) ==
    LET mro == Details(classType.cls).mro
        hits == {i \in 1..Len(mro) :
                    Details(mro[i]).isClass /\ HasField(Details(mro[i]).fields, name)}
    IN  IF hits = {} THEN NotFound
        ELSE [found |-> TRUE,
              symbol |-> GetField(Details(mro[Min(hits)]).fields, name),
              classType |-> ClassT(mro[Min(hits)], classType.arg, 1)]

\* srcType.fields.get(name) of a module.
ModuleMember(module, name) ==
    IF HasField(ModuleFields(module), name)
    THEN [found |-> TRUE, symbol |-> GetField(ModuleFields(module), name),
          classType |-> ClassT(NoClass, NoArg, 1)]
    ELSE NotFound

\* A declared type with the owner's type argument applied.
CT(kind, of) == [kind |-> kind, of |-> of]
partiallySpecializeType(mt, ownerArg) ==
    IF mt.cls = "T"
    THEN CT(mt.kind, ClassT(TypeArgumentClass(ownerArg), NoArg, 1))
    ELSE CT(mt.kind,
            ClassT(mt.cls,
                   IF mt.grow /\ ownerArg # NoArg
                   THEN (IF ownerArg < MaxArg THEN ownerArg + 1 ELSE MaxArg)
                   ELSE NoArg,
                   1))

\* evaluator.getDeclaredTypeOfSymbol: the type as it is written in the class
\* body, the type parameters of the class not replaced by anything.
getDeclaredTypeOfSymbol(symbol) == CT(symbol.mt.kind, ClassT(symbol.mt.cls, NoArg, 1))

\* An entry of details.mro: the ancestor as the class statement names it,
\* without the type arguments of the type that is compared.
MroClass(c) == ClassT(c, NoArg, 1)

isSameGenericClass(t1, t2) == t1.cls = t2.cls

\* UnknownType.create()
UnknownType == CT("unknown", ClassT("Unknown", NoArg, 1))

\* evaluator.getGetterTypeFromProperty: the return type of fget, if any.
HasGetterType(symbol) == symbol.getter
getGetterTypeFromProperty(propertyType) == CT("obj", propertyType.of)

\* What evaluator.getTypedDictClassType can hand back: the placeholder
\* class, something that is not a class, or nothing.
TypedDictClassTypes == {"_TypedDict", "Unknown", NoClass}

\* The base class with the type argument of the class that derives from it.
specializeForBaseClass(classType, baseClass) == ClassT(baseClass, classType.arg, 1)

containsLiteralType(srcType) == Details(srcType.cls).literal

AssignableBasic(dest, src) ==
    \/ dest = src
    \/ dest = "object"
    \/ <<src, dest>> \in {<<"bool", "int">>, <<"int", "float">>, <<"bool", "float">>}

\* evaluator.canAssignType hands the comparison of a class (or of the return
\* type of a method) with a protocol class back to canAssignClassToProtocol.
CanAssignTypeReenters(dest, src) ==
    /\ dest.kind = src.kind
    /\ dest.kind \in {"obj", "fn"}
    /\ Details(dest.of.cls).isProtocol

\* evaluator.canAssignType on anything else.
canAssignTypeBase(dest, src, flags) ==
    IF src.kind = "unknown" THEN TRUE
    ELSE IF dest.kind # src.kind THEN FALSE
    ELSE IF EnforceInvariance \in flags /\ dest.kind = "obj"
         THEN isTypeSame(dest.of, src.of)
         ELSE AssignableBasic(dest.of.cls, src.of.cls)

\* canAssignProperty of properties.ts: the getters are compared covariantly.
canAssignProperty(dest, src) == AssignableBasic(dest.of.cls, src.of.cls)

(***************************************************************************)
(* Diagnostics.                                                            *)
(***************************************************************************)
EmptyAddendum == [messages |-> <<>>, children |-> <<>>]
Msg(text, name) == [text |-> text, name |-> name]
addMessage(d, text, name) == [d EXCEPT !.messages = Append(@, Msg(text, name))]
addChild(d, child) == [d EXCEPT !.children = Append(@, child)]

(***************************************************************************)
(* Calls in flight.  pc of a frame: "entry" (called, nothing done yet),    *)
(* "internal" (entry pushed, canAssignClassToProtocolInternal not begun),  *)
(* "scan" (at the member mi/fi of the loops), "call" (a collaborator is    *)
(* about to be called for that member), "await" (the collaborator runs),   *)
(* "typeargs" (loops done), "ret" (return value in ok).                    *)
(***************************************************************************)
NoSym == Sym("", <<>>, NoType)
NoCT == CT("none", ClassT("object", NoArg, 1))
NoCur == [name |-> "", destSym |-> NoSym, srcSym |-> NoSym, dest |-> NoCT, src |-> NoCT,
          via |-> "", flags |-> {}, isInvariant |-> FALSE, fromMeta |-> FALSE, recv |-> ""]

NewFrame(fn, destType, srcType, hasDiag, flags, treat, rc, stack) ==
    [fn |-> fn, destType |-> destType, srcType |-> srcType, hasDiag |-> hasDiag,
     flags |-> flags, treatSourceAsInstantiable |-> treat, recursionCount |-> rc,
     pc |-> "entry", pushed |-> FALSE, early |-> "",
     mi |-> 1, fi |-> 1, checkedSymbolSet |-> {}, typesAreConsistent |-> TRUE,
     canAssignFlags |-> DefaultFlags, cur |-> NoCur,
     diag |-> EmptyAddendum,
     \* history of the call, for the properties below
     entryStack |-> stack, entrySrc |-> srcType, entryCount |-> rc,
     looked |-> <<>>, compared |-> <<>>, verified |-> "no"]

\* from: for a failure, how many calls were in flight when it was raised.
NoResult == [kind |-> "none", val |-> FALSE, diag |-> EmptyAddendum, from |-> 0]
Value(v, d) == [kind |-> "value", val |-> v, diag |-> d, from |-> 0]
Thrown(depth) == [kind |-> "throw", val |-> FALSE, diag |-> EmptyAddendum, from |-> depth]

Top == frames[Len(frames)]
SetTop(f) == [frames EXCEPT ![Len(frames)] = f]
Caller == SubSeq(frames, 1, Len(frames) - 1)

StackEntry(srcType, destType) == [srcType |-> srcType, destType |-> destType]

(***************************************************************************)
(* The decisions of the code.                                              *)
(***************************************************************************)
\* (a limit that is one too high)
ExceedsRecursionOffByOne(rc) == rc > maxTypeRecursionCount + 1

\* recursionCount > maxTypeRecursionCount
ExceedsRecursion(rc) == rc > maxTypeRecursionCount

\* (the pair looked for by object identity instead of isTypeSame)
AlreadyOnStackByIdentity(stack, srcType, destType) ==
    \E i \in 1..Len(stack) :
        stack[i].srcType = srcType /\ stack[i].destType = destType

\* (no cycle detection at all)
NeverOnStack(stack, srcType, destType) == FALSE

\* protocolAssignmentStack.some(...)
AlreadyOnStack(stack, srcType, destType) ==
    \E i \in 1..Len(stack) :
        isTypeSame(stack[i].srcType, srcType) /\ isTypeSame(stack[i].destType, destType)

\* (a catch block that rethrows without popping)
NoPopInCatch(stack) == stack

\* protocolAssignmentStack.pop() of the catch block, and of the normal path
PopInCatch(stack) == SubSeq(stack, 1, Len(stack) - 1)
\* (the oldest entry is removed)
PopOldest(stack) == Tail(stack)

PopOnReturn(stack) == SubSeq(stack, 1, Len(stack) - 1)

\* (the flag never looked at)
InvarianceIgnored(flags) == FALSE

\* (flags & CanAssignFlags.EnforceInvariance) !== 0
InvarianceEnforced(flags) == EnforceInvariance \in flags

\* (every class of the MRO contributes its members)
IsAnyMroClass(c) == Details(c).isClass

IsProtocolMroClass(c) == Details(c).isClass /\ Details(c).isProtocol

IsCandidateMember(symbol, checked) ==
    symbol.classMember /\ ~symbol.ignored /\ symbol.name \notin checked

\* the names canAssignClassToProtocolInternal leaves out
IsSpecialCased(name, treat) ==
    \/ ~treat /\ name = "__class_getitem__"
    \/ name = "__slots__"

\* (the name not recorded)
ForgetChecked(checked, name) == checked

\* checkedSymbolSet.add(name)
MarkChecked(checked, name) == checked \cup {name}

\* (every variable taken as mutable)
IsVariableMember(symbol) ==
    /\ Len(symbol.decls) > 0
    /\ symbol.decls[1].type = "Variable"

\* primaryDecl?.type === DeclarationType.Variable && !primaryDecl.isFinal
IsInvariantMember(symbol) ==
    /\ Len(symbol.decls) > 0
    /\ symbol.decls[1].type = "Variable"
    /\ ~symbol.decls[1].isFinal

\* getTypedDeclarations().some(decl => Variable && isFinal)
IsFinalSymbol(symbol) ==
    \E i \in 1..Len(symbol.decls) :
        symbol.decls[i].typed /\ symbol.decls[i].type = "Variable" /\ symbol.decls[i].isFinal

\* (only a final protocol member is a mismatch)
FinalOnlyInProtocol(destSym, srcSym) == IsFinalSymbol(destSym) /\ ~IsFinalSymbol(srcSym)

\* isDestFinal !== isSrcFinal
FinalMismatch(destSym, srcSym) == IsFinalSymbol(destSym) # IsFinalSymbol(srcSym)

\* (only a member with a declared type is held to be a class variable)
ClassVarMismatchIfDeclared(destSym, srcSym) ==
    destSym.mt.kind # "none" /\ destSym.classVar /\ ~srcSym.classMember

\* symbol.isClassVar() && !srcMemberInfo.symbol.isClassMember()
ClassVarMismatch(destSym, srcSym) == destSym.classVar /\ ~srcSym.classMember

(***************************************************************************)
(* The two forEach loops: the position after mi/fi at which the callback   *)
(* body runs next, skipping MRO entries that are not protocol classes.     *)
(***************************************************************************)
RECURSIVE NormPos(_, _, _)
NormPos(mro, mi, fi) ==
    IF mi > Len(mro) THEN <<mi, 1>>
    ELSE IF ~IsProtocolMroClass(mro[mi]) \/ fi > Len(Details(mro[mi]).fields)
         THEN NormPos(mro, mi + 1, 1)
         ELSE <<mi, fi>>

DestMro(f) == Details(f.destType.cls).mro
CurSym(f) == Details(DestMro(f)[f.mi]).fields[f.fi]

MoveTo(f, pos) ==
    [f EXCEPT !.mi = pos[1], !.fi = pos[2], !.cur = NoCur,
              !.pc = IF pos[1] > Len(DestMro(f)) THEN "typeargs" ELSE "scan"]

Advance(f) == MoveTo(f, NormPos(DestMro(f), f.mi, f.fi + 1))

\* (a missing member ends the loops)
StopAfterMissing(f) == MoveTo(f, <<Len(DestMro(f)) + 1, 1>>)

\* After a missing member the callback just ends: the loops go on.
AfterMissing(f) == Advance(f)

(***************************************************************************)
(* canAssignClassToProtocolInternal: the callback body for one member, up  *)
(* to the call of the collaborator that compares the types.                *)
(***************************************************************************)
Looked(name, on, found) == [name |-> name, on |-> on, found |-> found]

\* (the result is set where the message is added)
MissingOnlyReported(f, name) ==
    IF f.hasDiag
    THEN [f EXCEPT !.diag = addMessage(@, "protocolMemberMissing", name),
                   !.typesAreConsistent = FALSE]
    ELSE f

Missing(f, name) ==
    [f EXCEPT !.diag = IF f.hasDiag THEN addMessage(@, "protocolMemberMissing", name) ELSE @,
              !.typesAreConsistent = FALSE]

CheckClassVar(f, destSym, srcSym) ==
    IF ClassVarMismatch(destSym, srcSym)
    THEN [f EXCEPT !.diag = IF f.hasDiag
                            THEN addMessage(@, "protocolMemberClassVar", destSym.name)
                            ELSE @,
                   !.typesAreConsistent = FALSE]
    ELSE f

\* Lines 191-197: the declared type of the protocol member, specialized by
\* the MRO class that declares it unless that is the protocol's own class.
DestMemberType(f, symbol) ==
    LET mroClass == MroClass(DestMro(f)[f.mi])
    IN  IF ~isSameGenericClass(mroClass, f.destType)
        THEN partiallySpecializeType(symbol.mt, mroClass.arg)
        ELSE getDeclaredTypeOfSymbol(symbol)

\* Lines 199-211: the type of the candidate's member, specialized by the
\* class it was found on (the metaclass, or a class of the candidate's MRO),
\* Unknown if it was found on something that is not a class.
SrcMemberType(f, info) ==
    IF Details(info.classType.cls).isClass
    THEN partiallySpecializeType(info.symbol.mt, info.classType.arg)
    ELSE UnknownType

\* Which collaborator compares the member, on which types, with which flags.
Comparison(f, symbol, info, fromMeta) ==
    LET dest == DestMemberType(f, symbol)
        src == SrcMemberType(f, info)
        inv == IsInvariantMember(symbol)
        isProp == dest.kind = "prop"
        propToProp == isProp /\ src.kind = "prop" /\ ~f.treatSourceAsInstantiable
    IN  [name |-> symbol.name, destSym |-> symbol, srcSym |-> info.symbol,
         dest |-> IF isProp /\ ~propToProp THEN getGetterTypeFromProperty(dest) ELSE dest,
         src |-> src,
         via |-> IF propToProp THEN "canAssignProperty"
                 ELSE IF ~isProp THEN "canAssignType"
                 ELSE IF HasGetterType(symbol) THEN "getter" ELSE "nogetter",
         flags |-> IF propToProp THEN DefaultFlags
                   ELSE IF ~isProp /\ inv
                   THEN f.canAssignFlags \cup {EnforceInvariance}
                   ELSE f.canAssignFlags,
         isInvariant |-> ~isProp /\ inv,
         fromMeta |-> fromMeta,
         recv |-> IF src.kind # "fn" THEN ""
                  ELSE IF fromMeta \/ f.treatSourceAsInstantiable THEN "class"
                  ELSE "instance"]

Compared(c, answer) ==
    [name |-> c.name, via |-> c.via, flags |-> c.flags, answer |-> answer,
     fromMeta |-> c.fromMeta, recv |-> c.recv]

\* Lines 276-389: what the answer to the comparison of the member f.cur
\* does to the call.  sub0 is the member's addendum as the comparison left
\* it, log the comparisons answered so far.
ClassMemberChecks(f, answer, sub0, log) ==
    LET c == f.cur
        final == FinalMismatch(c.destSym, c.srcSym)
        sub1 == IF answer THEN sub0
                ELSE addMessage(IF c.isInvariant
                                THEN addMessage(sub0, "memberIsInvariant", c.name)
                                ELSE sub0,
                                "memberTypeMismatch", c.name)
        sub2 == IF ~final THEN sub1
                ELSE addMessage(sub1,
                                IF IsFinalSymbol(c.destSym) THEN "memberIsFinalInProtocol"
                                ELSE "memberIsNotFinalInProtocol",
                                c.name)
        g == [f EXCEPT !.typesAreConsistent = @ /\ answer /\ ~final,
                       !.diag = IF f.hasDiag THEN addChild(@, sub2) ELSE @,
                       !.compared = log]
    IN  Advance(CheckClassVar(g, c.destSym, c.srcSym))

\* (the metaclass is searched also for an instance)
LooksInMetaclassAlways(f) ==
    /\ Details(f.srcType.cls).metaclass # NoClass
    /\ Details(Details(f.srcType.cls).metaclass).isClass

\* treatSourceAsInstantiable && srcType.details.effectiveMetaclass &&
\* isInstantiableClass(srcType.details.effectiveMetaclass)
LooksInMetaclassFirst(f) ==
    /\ f.treatSourceAsInstantiable
    /\ Details(f.srcType.cls).metaclass # NoClass
    /\ Details(Details(f.srcType.cls).metaclass).isClass

ScanClassMember(f) ==
    LET symbol == CurSym(f)
        name == symbol.name
        meta == Details(f.srcType.cls).metaclass
        useMeta == LooksInMetaclassFirst(f)
        metaInfo == IF useMeta THEN lookUpClassMember(ClassT(meta, NoArg, 0), name)
                    ELSE NotFound
        info == IF metaInfo.found THEN metaInfo ELSE lookUpClassMember(f.srcType, name)
        g == [f EXCEPT
                !.checkedSymbolSet = MarkChecked(@, name),
                !.looked = @ \o (IF useMeta
                                 THEN <<Looked(name, "metaclass", metaInfo.found)>>
                                 ELSE <<>>)
                             \o (IF metaInfo.found THEN <<>>
                                 ELSE <<Looked(name, "class", info.found)>>)]
    IN  IF ~IsCandidateMember(symbol, f.checkedSymbolSet) THEN Advance(f)
        ELSE IF IsSpecialCased(name, f.treatSourceAsInstantiable) THEN Advance(f)
        ELSE IF ~info.found THEN AfterMissing(Missing(g, name))
        ELSE IF symbol.mt.kind = "none"
             THEN Advance(CheckClassVar(g, symbol, info.symbol))
        ELSE [g EXCEPT !.pc = "call",
                       !.cur = Comparison(g, symbol, info, metaInfo.found)]

\* Line 312: the property of the protocol has no getter type.  The member
\* is rejected, no comparison is made and no addendum is made for one.
NoGetterResult(f) == ClassMemberChecks(f, FALSE, EmptyAddendum, f.compared)

\* The rest of the callback body, once the collaborator has answered.
ClassMemberResult(f, res) ==
    ClassMemberChecks(f, res.val, addChild(EmptyAddendum, res.diag),
                      Append(f.compared, Compared(f.cur, res.val)))

(***************************************************************************)
(* canAssignModuleToProtocol: the callback body for one member.            *)
(***************************************************************************)
ScanModuleMember(f) ==
    LET symbol == CurSym(f)
        name == symbol.name
        info == ModuleMember(f.srcType.cls, name)
        g == [f EXCEPT !.checkedSymbolSet = MarkChecked(@, name),
                       !.looked = Append(@, Looked(name, "module", info.found))]
    IN  IF ~IsCandidateMember(symbol, f.checkedSymbolSet) THEN Advance(f)
        ELSE IF ~info.found THEN Advance(Missing(g, name))
        ELSE IF symbol.mt.kind = "none" THEN Advance(g)
        ELSE [g EXCEPT !.pc = "call",
                       !.cur = [name |-> name, destSym |-> symbol, srcSym |-> info.symbol,
                                dest |-> partiallySpecializeType(symbol.mt, f.destType.arg),
                                src |-> partiallySpecializeType(info.symbol.mt, NoArg),
                                via |-> "canAssignType", flags |-> DefaultFlags,
                                isInvariant |-> FALSE, fromMeta |-> FALSE, recv |-> ""]]

\* (a rejected member leaves the result as it was)
ModuleMemberResultIgnored(f, res) ==
    Advance([f EXCEPT !.compared = Append(@, Compared(f.cur, res.val))])

ModuleMemberResult(f, res) ==
    LET c == f.cur
        sub0 == addChild(EmptyAddendum, res.diag)
        sub1 == IF res.val THEN sub0 ELSE addMessage(sub0, "memberTypeMismatch", c.name)
    IN  Advance([f EXCEPT !.typesAreConsistent = @ /\ res.val,
                          !.diag = IF f.hasDiag THEN addChild(@, sub1) ELSE @,
                          !.compared = Append(@, Compared(c, res.val))])

(***************************************************************************)
(* canAssignProtocolClassToSelf: the callback body for one member of the   *)
(* protocol's own table, and the test of a base class.  A frame of this    *)
(* function keeps isAssignable in typesAreConsistent, its place in the     *)
(* member table in fi and its place in baseClasses in mi.                  *)
(***************************************************************************)
NewSelfFrame(destType, srcType, rc, stack) ==
    [NewFrame("self", destType, srcType, TRUE, DefaultFlags, FALSE, rc, stack)
       EXCEPT !.pc = IF Details(destType.cls).fields = <<>> THEN "bases" ELSE "scan"]

SelfAdvance(f) ==
    [f EXCEPT !.fi = @ + 1, !.cur = NoCur,
              !.pc = IF f.fi + 1 > Len(Details(f.destType.cls).fields)
                     THEN "bases" ELSE "scan"]

\* isAssignable && symbol.isClassMember() && !symbol.isIgnoredForProtocolMatch()
IsSelfCheckedMember(f, symbol) ==
    f.typesAreConsistent /\ symbol.classMember /\ ~symbol.ignored

\* Variable && !isFinal ? CanAssignFlags.EnforceInvariance : CanAssignFlags.Default
SelfFlags(symbol) ==
    IF IsInvariantMember(symbol) THEN {EnforceInvariance} ELSE DefaultFlags

ScanSelfMember(f) ==
    LET symbol == Details(f.destType.cls).fields[f.fi]
        info == lookUpClassMember(f.srcType, symbol.name)
        dest == partiallySpecializeType(symbol.mt, f.destType.arg)
        src == partiallySpecializeType(info.symbol.mt, f.srcType.arg)
        bothProps == dest.kind = "prop" /\ src.kind = "prop"
        g == [f EXCEPT !.looked = Append(@, Looked(symbol.name, "class", info.found))]
    IN  IF ~IsSelfCheckedMember(f, symbol) THEN SelfAdvance(f)
        ELSE IF symbol.mt.kind = "none" THEN SelfAdvance(g)
        ELSE [g EXCEPT !.pc = "call",
                       !.cur = [name |-> symbol.name, destSym |-> symbol,
                                srcSym |-> info.symbol, dest |-> dest, src |-> src,
                                via |-> IF bothProps THEN "canAssignProperty"
                                        ELSE "canAssignType",
                                flags |-> IF bothProps THEN DefaultFlags
                                          ELSE SelfFlags(symbol),
                                isInvariant |-> ~bothProps /\ IsInvariantMember(symbol),
                                fromMeta |-> FALSE, recv |-> ""]]

SelfMemberResult(f, res) ==
    SelfAdvance([f EXCEPT !.typesAreConsistent = @ /\ res.val,
                          !.compared = Append(@, Compared(f.cur, res.val))])

\* (no base class is looked at)
NoBaseChecked(baseClass) == FALSE

\* The test of lines 598-604.
IsCheckedBase(baseClass) ==
    /\ Details(baseClass).isClass
    /\ Details(baseClass).isProtocol
    /\ baseClass \notin {"object", "Protocol"}
    /\ Details(baseClass).typeParameters > 0

\* Lines 128-133: isTypedDictClass(srcType), and the evaluator has a
\* placeholder that is an instantiable class.
UsesPlaceholder(srcType, typedDictClassType) ==
    /\ Details(srcType.cls).isTypedDict
    /\ typedDictClassType # NoClass
    /\ Details(typedDictClassType).isClass

\* (the type arguments never verified)
NeverNeedsTypeArgumentCheck(f) == FALSE

\* typesAreConsistent && typeParameters.length > 0 && destType.typeArguments
NeedsTypeArgumentCheck(f) ==
    /\ f.typesAreConsistent
    /\ Details(f.destType.cls).typeParameters > 0
    /\ f.destType.arg # NoArg

(***************************************************************************)
(* The state machine.                                                      *)
(***************************************************************************)
TopLevelFlags == {DefaultFlags, {EnforceInvariance}}
RecursionInputs == {0, maxTypeRecursionCount, maxTypeRecursionCount + 1}
TypeArgsOf(c) == IF Details(c).typeParameters > 0 THEN NoArg..MaxTopArg ELSE {NoArg}

Init ==
    /\ protocolAssignmentStack = <<>>
    /\ frames = <<>>
    /\ result = NoResult
    /\ classes = ClassTable

\* The type evaluator calls canAssignClassToProtocol from outside.
CallClass ==
    /\ frames = <<>>
    /\ \E p \in Protocols, c \in Candidates, flags \in TopLevelFlags,
          treat \in BOOLEAN, rc \in RecursionInputs, hasDiag \in BOOLEAN :
          \E da \in TypeArgsOf(p), sa \in TypeArgsOf(c) :
              frames' = <<NewFrame("class", ClassT(p, da, 0), ClassT(c, sa, 0), hasDiag,
                                   flags, treat, rc, protocolAssignmentStack)>>
    /\ result' = NoResult
    /\ UNCHANGED <<protocolAssignmentStack, classes>>

\* The type evaluator calls canAssignModuleToProtocol from outside.
CallModule ==
    /\ frames = <<>>
    /\ \E p \in Protocols, m \in Modules, flags \in TopLevelFlags,
          rc \in RecursionInputs, hasDiag \in BOOLEAN :
          \E da \in TypeArgsOf(p) :
              frames' = <<NewFrame("module", ClassT(p, da, 0), ClassT(m, NoArg, 0), hasDiag,
                                   flags, FALSE, rc, protocolAssignmentStack)>>
    /\ result' = NoResult
    /\ UNCHANGED <<protocolAssignmentStack, classes>>

\* The checker validates the variance of a protocol's type parameters.
CallSelf ==
    /\ frames = <<>>
    /\ \E p \in SelfProtocols, da \in SelfTypeArgs, sa \in SelfTypeArgs,
          rc \in RecursionInputs :
          frames' = <<NewSelfFrame(ClassT(p, da, 0), ClassT(p, sa, 0), rc,
                                   protocolAssignmentStack)>>
    /\ result' = NoResult
    /\ UNCHANGED <<protocolAssignmentStack, classes>>

\* canAssignClassToProtocol, lines 63-78.
EnterClass ==
    /\ frames # <<>> /\ Top.fn = "class" /\ Top.pc = "entry"
    /\ IF ExceedsRecursion(Top.recursionCount)
       THEN /\ frames' = SetTop([Top EXCEPT !.pc = "ret", !.early = "depth"])
            /\ UNCHANGED <<protocolAssignmentStack, classes>>
       ELSE IF AlreadyOnStack(protocolAssignmentStack, Top.srcType, Top.destType)
       THEN /\ frames' = SetTop([Top EXCEPT !.pc = "ret", !.early = "cycle",
                                            !.recursionCount = @ + 1])
            /\ UNCHANGED <<protocolAssignmentStack, classes>>
       ELSE /\ protocolAssignmentStack' =
                   Append(protocolAssignmentStack, StackEntry(Top.srcType, Top.destType))
            /\ frames' = SetTop([Top EXCEPT !.pc = "internal", !.pushed = TRUE,
                                            !.recursionCount = @ + 1])
    /\ UNCHANGED <<result, classes>>

\* canAssignClassToProtocolInternal, lines 114-140, with
\* evaluator.getTypedDictClassType answering typedDictClassType.
Internal ==
    /\ frames # <<>> /\ Top.pc = "internal"
    /\ \E typedDictClassType \in TypedDictClassTypes :
          frames' = SetTop(
             IF InvarianceEnforced(Top.flags)
             THEN [Top EXCEPT !.typesAreConsistent = isTypeSame(Top.destType, Top.srcType),
                              !.pc = "ret"]
             ELSE LET src == IF UsesPlaceholder(Top.srcType, typedDictClassType)
                             THEN ClassT(typedDictClassType, NoArg, 0)
                             ELSE Top.srcType
                  IN  MoveTo([Top EXCEPT !.srcType = src,
                                         !.canAssignFlags =
                                             IF containsLiteralType(src)
                                             THEN {RetainLiteralsForTypeVar}
                                             ELSE DefaultFlags],
                             NormPos(DestMro(Top), 1, 1)))
    /\ UNCHANGED <<protocolAssignmentStack, result, classes>>

\* canAssignModuleToProtocol, lines 427-437.
EnterModule ==
    /\ frames # <<>> /\ Top.fn = "module" /\ Top.pc = "entry"
    /\ frames' = SetTop(
          IF ExceedsRecursion(Top.recursionCount)
          THEN [Top EXCEPT !.pc = "ret", !.early = "depth"]
          ELSE MoveTo([Top EXCEPT !.recursionCount = @ + 1], NormPos(DestMro(Top), 1, 1)))
    /\ UNCHANGED <<protocolAssignmentStack, result, classes>>

ScanClass ==
    /\ frames # <<>> /\ Top.fn = "class" /\ Top.pc = "scan"
    /\ frames' = SetTop(ScanClassMember(Top))
    /\ UNCHANGED <<protocolAssignmentStack, result, classes>>

ScanModule ==
    /\ frames # <<>> /\ Top.fn = "module" /\ Top.pc = "scan"
    /\ frames' = SetTop(ScanModuleMember(Top))
    /\ UNCHANGED <<protocolAssignmentStack, result, classes>>

\* canAssignProtocolClassToSelf, lines 542-593: one member of the table.
ScanSelf ==
    /\ frames # <<>> /\ Top.fn = "self" /\ Top.pc = "scan"
    /\ frames' = SetTop(ScanSelfMember(Top))
    /\ UNCHANGED <<protocolAssignmentStack, result, classes>>

\* Lines 596-618: one base class, and the return once all are done.
ScanSelfBases ==
    /\ frames # <<>> /\ Top.fn = "self" /\ Top.pc = "bases"
    /\ LET bases == baseClasses(Top.destType.cls)
       IN  frames' =
              IF Top.mi > Len(bases) THEN SetTop([Top EXCEPT !.pc = "ret"])
              ELSE IF IsCheckedBase(bases[Top.mi])
                   THEN Append(SetTop([Top EXCEPT !.pc = "awaitbase"]),
                               NewSelfFrame(specializeForBaseClass(Top.destType, bases[Top.mi]),
                                            specializeForBaseClass(Top.srcType, bases[Top.mi]),
                                            Top.recursionCount, protocolAssignmentStack))
                   ELSE SetTop([Top EXCEPT !.mi = @ + 1])
    /\ UNCHANGED <<protocolAssignmentStack, result, classes>>

\* Lines 607-616: the answer of the call for a base class.
BaseResult ==
    /\ frames # <<>> /\ Top.fn = "self" /\ Top.pc = "awaitbase" /\ result.kind = "value"
    /\ frames' = SetTop([Top EXCEPT !.typesAreConsistent = @ /\ result.val,
                                    !.mi = @ + 1, !.pc = "bases"])
    /\ result' = NoResult
    /\ UNCHANGED <<protocolAssignmentStack, classes>>

\* evaluator.getGetterTypeFromProperty has no type to give (lines 307-312).
GetterMissing ==
    /\ frames # <<>> /\ Top.pc = "call" /\ Top.cur.via = "nogetter"
    /\ frames' = SetTop(NoGetterResult(Top))
    /\ UNCHANGED <<protocolAssignmentStack, result, classes>>

\* The collaborator answers by itself.
CollaboratorReturns ==
    /\ frames # <<>> /\ Top.pc = "call" /\ Top.cur.via # "nogetter"
    /\ \/ Top.cur.via = "canAssignProperty"
       \/ ~CanAssignTypeReenters(Top.cur.dest, Top.cur.src)
    /\ result' = Value(IF Top.cur.via = "canAssignProperty"
                       THEN canAssignProperty(Top.cur.dest, Top.cur.src)
                       ELSE canAssignTypeBase(Top.cur.dest, Top.cur.src, Top.cur.flags),
                       EmptyAddendum)
    /\ frames' = SetTop([Top EXCEPT !.pc = "await"])
    /\ UNCHANGED <<protocolAssignmentStack, classes>>

\* evaluator.canAssignType comes back into canAssignClassToProtocol with the
\* flags and the recursion count it was given.
CollaboratorReenters ==
    /\ frames # <<>> /\ Top.pc = "call"
    /\ Top.cur.via \notin {"canAssignProperty", "nogetter"}
    /\ CanAssignTypeReenters(Top.cur.dest, Top.cur.src)
    /\ frames' = Append(SetTop([Top EXCEPT !.pc = "await"]),
                        NewFrame("class", Top.cur.dest.of, Top.cur.src.of, Top.hasDiag,
                                 Top.cur.flags, FALSE, Top.recursionCount,
                                 protocolAssignmentStack))
    /\ UNCHANGED <<protocolAssignmentStack, result, classes>>

\* The callback body of the call f for the member it is at.
ScanMember(f) ==
    IF f.fn = "class" THEN ScanClassMember(f)
    ELSE IF f.fn = "module" THEN ScanModuleMember(f)
    ELSE ScanSelfMember(f)

\* The states in which a failure inside the callback body leaves the call:
\* lookUpClassMember has failed after k of the lookups of this member were
\* made, or all were made, the member is there, and the evaluator fails on
\* it before the types are compared.  The table of a module is read without
\* a collaborator.
FailedInScan(f) ==
    LET after == ScanMember(f)
        n == Len(after.looked) - Len(f.looked)
        found == n > 0 /\ after.looked[Len(after.looked)].found
    IN  {[f EXCEPT !.checkedSymbolSet = after.checkedSymbolSet,
                   !.looked = SubSeq(after.looked, 1, Len(f.looked) + k)] :
            k \in {j \in 0..n : (j < n /\ f.fn # "module") \/ (j = n /\ found)}}

\* Line 276 and the argument subDiag?.createAddendum() of the comparison:
\* the addendum of the member is in the diagnostic before the collaborator
\* is called, and stays there when the collaborator fails.
\* canAssignProtocolClassToSelf hands its own diagnostic on and makes none.
WithSubDiag(f, sub) ==
    [f EXCEPT !.diag = IF f.hasDiag /\ f.fn # "self" THEN addChild(@, sub) ELSE @]

\* The states in which a failure of the collaborator that compares the
\* member leaves the call: evaluator.getGetterTypeFromProperty fails before
\* the addendum of the comparison is made, the comparison itself after.
FailedInCall(f) ==
    IF f.cur.via = "nogetter" THEN {WithSubDiag(f, EmptyAddendum)}
    ELSE IF f.cur.via = "getter"
         THEN {WithSubDiag(f, EmptyAddendum),
               WithSubDiag(f, addChild(EmptyAddendum, EmptyAddendum))}
    ELSE {WithSubDiag(f, addChild(EmptyAddendum, EmptyAddendum))}

\* specializeForBaseClass is about to be called for a base class (lines
\* 597-609).
AtCheckedBase(f) ==
    /\ f.mi <= Len(baseClasses(f.destType.cls))
    /\ IsCheckedBase(baseClasses(f.destType.cls)[f.mi])

\* The states in which a collaborator can fail: every call the functions
\* make to the evaluator and to the helpers of typeUtils.ts, among them
\* getTypeVarScopeId at the entry of canAssignModuleToProtocol (line 437)
\* and specializeForBaseClass in canAssignProtocolClassToSelf.
ThrowPoints(f) ==
    IF f.pc = "call" THEN FailedInCall(f)
    ELSE IF f.pc = "typeargs" /\ NeedsTypeArgumentCheck(f) THEN {f}
    ELSE IF f.pc = "internal" /\ ~InvarianceEnforced(f.flags) THEN {f}
    ELSE IF f.pc = "scan" THEN FailedInScan(f)
    ELSE IF f.pc = "entry" /\ f.fn = "module" /\ ~ExceedsRecursion(f.recursionCount)
         THEN {[f EXCEPT !.recursionCount = @ + 1]}
    ELSE IF f.pc = "bases" /\ f.fn = "self" /\ AtCheckedBase(f) THEN {f}
    ELSE {}

\* A collaborator fails abnormally.
CollaboratorThrows ==
    /\ frames # <<>>
    /\ \E g \in ThrowPoints(Top) : frames' = SetTop([g EXCEPT !.pc = "await"])
    /\ result' = Thrown(Len(frames))
    /\ UNCHANGED <<protocolAssignmentStack, classes>>

\* Lines 297-389 and 490-495: what follows the collaborator's answer.
MemberResult ==
    /\ frames # <<>> /\ Top.pc = "await" /\ result.kind = "value"
    /\ frames' = SetTop(IF Top.fn = "class" THEN ClassMemberResult(Top, result)
                        ELSE IF Top.fn = "module" THEN ModuleMemberResult(Top, result)
                        ELSE SelfMemberResult(Top, result))
    /\ result' = NoResult
    /\ UNCHANGED <<protocolAssignmentStack, classes>>

\* Lines 395-415 and 502-522, with verifyTypeArgumentsAssignable answering r.
VerifyTypeArguments ==
    /\ frames # <<>> /\ Top.pc = "typeargs" /\ NeedsTypeArgumentCheck(Top)
    /\ \E r \in BOOLEAN :
          frames' = SetTop([Top EXCEPT !.typesAreConsistent = r, !.pc = "ret",
                                       !.verified = IF r THEN "accepted" ELSE "rejected"])
    /\ UNCHANGED <<protocolAssignmentStack, result, classes>>

SkipTypeArguments ==
    /\ frames # <<>> /\ Top.pc = "typeargs" /\ ~NeedsTypeArgumentCheck(Top)
    /\ frames' = SetTop([Top EXCEPT !.pc = "ret"])
    /\ UNCHANGED <<protocolAssignmentStack, result, classes>>

\* Lines 99-101 (and 64, 75, 428, 522): the call returns to its caller.
Return ==
    /\ frames # <<>> /\ Top.pc = "ret"
    /\ protocolAssignmentStack' =
          IF Top.pushed THEN PopOnReturn(protocolAssignmentStack)
          ELSE protocolAssignmentStack
    /\ result' = Value(Top.typesAreConsistent, Top.diag)
    /\ frames' = Caller
    /\ UNCHANGED classes

\* The caller of a call that has failed: the addendum it made for the
\* comparison holds what the failed call had put into it.
CallerAfterThrow ==
    IF Len(frames) = 1 THEN <<>>
    ELSE [Caller EXCEPT ![Len(frames) - 1] =
             WithSubDiag(@, addChild(EmptyAddendum, Top.diag))]

\* Lines 92-97: the catch block of canAssignClassToProtocol.
CatchAndRethrow ==
    /\ frames # <<>> /\ Top.fn = "class" /\ Top.pc = "await" /\ result.kind = "throw"
    /\ protocolAssignmentStack' = PopInCatch(protocolAssignmentStack)
    /\ frames' = CallerAfterThrow
    /\ UNCHANGED <<result, classes>>

\* canAssignModuleToProtocol and canAssignProtocolClassToSelf catch nothing.
PropagateThrow ==
    /\ frames # <<>> /\ Top.fn # "class" /\ result.kind = "throw"
    /\ Top.pc \in {"await", "awaitbase"}
    /\ frames' = Caller
    /\ UNCHANGED <<protocolAssignmentStack, result, classes>>

\* A step of a call in flight.
Run ==
    \/ EnterClass
    \/ Internal
    \/ EnterModule
    \/ ScanClass
    \/ ScanModule
    \/ ScanSelf
    \/ ScanSelfBases
    \/ BaseResult
    \/ GetterMissing
    \/ CollaboratorReturns
    \/ CollaboratorReenters
    \/ CollaboratorThrows
    \/ MemberResult
    \/ VerifyTypeArguments
    \/ SkipTypeArguments
    \/ Return
    \/ CatchAndRethrow
    \/ PropagateThrow

Next ==
    \/ CallClass
    \/ CallModule
    \/ CallSelf
    \/ Run

Spec == Init /\ [][Next]_vars

\* The computation is synchronous: a call in flight takes its next step.
FairSpec == Spec /\ WF_vars(Run)

(***************************************************************************)
(* Properties.                                                             *)
(***************************************************************************)
ClassFrames == {i \in 1..Len(frames) : frames[i].fn = "class"}

\* The guard stack as it is while frame i is in flight and no deeper call
\* has changed it: the entries that were there when i was called, plus i's.
SameEntry(e, srcType, destType) ==
    /\ e.srcType.cls = srcType.cls /\ e.srcType.arg = srcType.arg
    /\ e.destType.cls = destType.cls /\ e.destType.arg = destType.arg

OnStackAtEntry(f) ==
    \E k \in 1..Len(f.entryStack) : SameEntry(f.entryStack[k], f.entrySrc, f.destType)

DepthExceededAtEntry(f) == f.entryCount > maxTypeRecursionCount

\* The frame has done nothing but decide to return true.
ReturnsTrueUntouched(i) ==
    /\ i = Len(frames)
    /\ frames[i].pc = "ret"
    /\ frames[i].typesAreConsistent
    /\ ~frames[i].pushed
    /\ frames[i].looked = <<>>
    /\ frames[i].compared = <<>>
    /\ protocolAssignmentStack = frames[i].entryStack

\* C1: whenever a call of canAssignClassToProtocol ends, by returning or by
\* a collaborator's exception passing through it, the guard stack is again
\* what it was when the call was entered, and an exception stays an
\* exception for the caller.
C1_GuardStackRestoredOnEveryExit ==
    [][(frames # <<>> /\ Len(frames') < Len(frames) /\ Top.fn = "class")
          => /\ protocolAssignmentStack' = Top.entryStack
             /\ (result.kind = "throw" => result' = result)]_vars

\* A failure raised under two nested calls has left both of them, and the
\* outer call found its own entry on top of the stack when it caught it.
C1_Witness ==
    /\ result.kind = "throw"
    /\ result.from >= 2
    /\ Len(frames) = 1
    /\ frames[1].pc = "await"
    /\ frames[1].pushed
    /\ Len(protocolAssignmentStack) = 1

\* C2: a call of canAssignClassToProtocol that finds its pair of types on
\* the guard stack (and is within the recursion limit) returns true at once:
\* it pushes nothing, looks nothing up and compares nothing.
C2_PairOnStackReturnsTrue ==
    \A i \in ClassFrames :
        (/\ frames[i].pc # "entry"
         /\ ~DepthExceededAtEntry(frames[i])
         /\ OnStackAtEntry(frames[i]))
            => ReturnsTrueUntouched(i)

\* The pair on the stack is held by other objects than the pair of the call.
C2_Witness ==
    /\ frames # <<>>
    /\ Top.fn = "class" /\ Top.pc = "ret"
    /\ ~DepthExceededAtEntry(Top)
    /\ \E k \in 1..Len(Top.entryStack) :
          /\ SameEntry(Top.entryStack[k], Top.entrySrc, Top.destType)
          /\ Top.entryStack[k].srcType # Top.entrySrc
    /\ Top.typesAreConsistent

\* C3: a call of canAssignClassToProtocol or canAssignModuleToProtocol with
\* a recursion count above maxTypeRecursionCount returns true at once,
\* whatever its other arguments: the count is not incremented, the guard
\* stack is as it was, nothing is looked up or compared.
C3_DepthExceededReturnsTrue ==
    \A i \in 1..Len(frames) :
        (frames[i].fn # "self" /\ frames[i].pc # "entry" /\ DepthExceededAtEntry(frames[i]))
            => /\ ReturnsTrueUntouched(i)
               /\ frames[i].recursionCount = frames[i].entryCount

\* A nested call, reached through the evaluator, hits the limit.
C3_Witness ==
    /\ Len(frames) >= 2
    /\ Top.fn = "class"
    /\ Top.pc = "ret"
    /\ DepthExceededAtEntry(Top)
    /\ Top.typesAreConsistent

\* C5: a call of canAssignClassToProtocol with the EnforceInvariance flag
\* looks no member up and compares none, and it returns true if and only if
\* the candidate and the protocol are the very same type, or the call was
\* ended before the comparison by the recursion limit or by the guard stack
\* (and then it returns true whatever the two types are).
C5_InvarianceBypassesStructure ==
    \A i \in ClassFrames :
        (EnforceInvariance \in frames[i].flags /\ frames[i].pc \notin {"entry", "internal"})
            => /\ i = Len(frames)
               /\ frames[i].pc = "ret"
               /\ frames[i].looked = <<>>
               /\ frames[i].compared = <<>>
               /\ frames[i].typesAreConsistent
                     <=> \/ (/\ frames[i].destType.cls = frames[i].entrySrc.cls
                             /\ frames[i].destType.arg = frames[i].entrySrc.arg)
                         \/ DepthExceededAtEntry(frames[i])
                         \/ OnStackAtEntry(frames[i])

\* The type is compared with itself under the flag: the call was not ended
\* early, and it answers true without having looked at a member.
C5_Witness ==
    /\ frames # <<>>
    /\ Top.fn = "class" /\ Top.pc = "ret"
    /\ EnforceInvariance \in Top.flags
    /\ Top.pushed
    /\ Top.destType.cls = Top.entrySrc.cls
    /\ Top.typesAreConsistent
    /\ Details(Top.destType.cls).fields # <<>>

\* C5 as it is worded: with the flag, the answer is true exactly when the two
\* types are the same type, for every call.
C5_AsWorded ==
    \A i \in ClassFrames :
        (EnforceInvariance \in frames[i].flags /\ frames[i].pc = "ret")
            => /\ frames[i].looked = <<>>
               /\ frames[i].compared = <<>>
               /\ frames[i].typesAreConsistent
                     <=> (/\ frames[i].destType.cls = frames[i].entrySrc.cls
                          /\ frames[i].destType.arg = frames[i].entrySrc.arg)

(***************************************************************************)
(* What a scan has to cover, read off the protocol's classes without       *)
(* following the loops: the declarations of the protocol classes of the    *)
(* MRO, the names among them that are required of the candidate, the       *)
(* declaration that stands for each name, and the candidate's member.      *)
(***************************************************************************)
Declarations(f) ==
    UNION {{<<mi, fi>> : fi \in 1..Len(Details(DestMro(f)[mi]).fields)} :
              mi \in {m \in 1..Len(DestMro(f)) :
                         /\ Details(DestMro(f)[m]).isClass
                         /\ Details(DestMro(f)[m]).isProtocol}}

DeclaredAt(f, p) == Details(DestMro(f)[p[1]]).fields[p[2]]

Before(p, q) == p[1] < q[1] \/ (p[1] = q[1] /\ p[2] < q[2])

RequiredAt(f, p) ==
    LET symbol == DeclaredAt(f, p)
    IN  /\ symbol.classMember
        /\ ~symbol.ignored
        /\ f.fn = "class" => symbol.name # "__slots__"
        /\ (f.fn = "class" /\ ~f.treatSourceAsInstantiable)
              => symbol.name # "__class_getitem__"

RequiredNames(f) == {DeclaredAt(f, p).name : p \in {q \in Declarations(f) : RequiredAt(f, q)}}

DeclarationsOf(f, name) ==
    {p \in Declarations(f) : RequiredAt(f, p) /\ DeclaredAt(f, p).name = name}

DeclaringSymbol(f, name) ==
    DeclaredAt(f, CHOOSE p \in DeclarationsOf(f, name) :
                     \A q \in DeclarationsOf(f, name) : p = q \/ Before(p, q))

CandidateMember(f, name) ==
    IF f.fn = "module" THEN ModuleMember(f.srcType.cls, name)
    ELSE LET meta == Details(f.srcType.cls).metaclass
             onMeta == IF /\ f.treatSourceAsInstantiable
                          /\ meta # NoClass
                          /\ Details(meta).isClass
                       THEN lookUpClassMember(ClassT(meta, NoArg, 0), name)
                       ELSE NotFound
         IN  IF onMeta.found THEN onMeta ELSE lookUpClassMember(f.srcType, name)

Range(seq) == {seq[k] : k \in 1..Len(seq)}
NamesIn(log) == {log[k].name : k \in 1..Len(log)}

\* The scan of the call is over: both loops have run to their end.
ScanIsOver(f) ==
    /\ f.pc \in {"typeargs", "ret"}
    /\ f.early = ""
    /\ f.fn = "class" => EnforceInvariance \notin f.flags

\* One member's checks: it is there, its type was accepted if it has a
\* declared type, both sides agree on final, a ClassVar is a class member.
MemberAgrees(f, name) ==
    LET symbol == DeclaringSymbol(f, name)
        info == CandidateMember(f, name)
    IN  /\ info.found
        /\ symbol.mt.kind # "none" =>
              /\ \E k \in 1..Len(f.compared) :
                    f.compared[k].name = name /\ f.compared[k].answer
              /\ IsFinalSymbol(symbol) = IsFinalSymbol(info.symbol)
        /\ ~(symbol.classVar /\ ~info.symbol.classMember)

CountOf(seq, x) == Cardinality({k \in 1..Len(seq) : seq[k] = x})

\* The protocol member is a property without a getter type and the
\* candidate's member is not compared with it as a property: line 312
\* rejects it without a comparison.
RejectedForGetter(f, name) ==
    LET symbol == DeclaringSymbol(f, name)
        info == CandidateMember(f, name)
    IN  /\ f.fn = "class"
        /\ info.found
        /\ symbol.mt.kind = "prop"
        /\ ~symbol.getter
        /\ (info.symbol.mt.kind # "prop" \/ f.treatSourceAsInstantiable)

\* A protocol with a member whose type is the protocol itself.
SelfReferential(destType) ==
    \E i \in 1..Len(Details(destType.cls).fields) :
        getDeclaredTypeOfSymbol(Details(destType.cls).fields[i]).of.cls = destType.cls

SelfReferentialCall ==
    /\ frames # <<>>
    /\ frames[1].fn = "class"
    /\ SelfReferential(frames[1].destType)

\* A comparison of the two types, as the declarations below read it.
ComparedAs(destType, srcType, treat) ==
    [NewFrame("class", destType, srcType, FALSE, DefaultFlags, treat, 0, <<>>)
       EXCEPT !.canAssignFlags = IF containsLiteralType(srcType)
                                 THEN {RetainLiteralsForTypeVar} ELSE DefaultFlags]

DeclaringPosition(f, name) ==
    CHOOSE p \in DeclarationsOf(f, name) :
        \A q \in DeclarationsOf(f, name) : p = q \/ Before(p, q)

\* The members of the candidate match those of the protocol: every
\* required name is there, agrees on final and on ClassVar, and its type is
\* accepted, where a member whose type leads back to a protocol is accepted
\* if the types it leads to match in turn, a pair of types that is already
\* being compared (seen) counting as a match.
RECURSIVE Conforms(_, _, _, _, _)
Conforms(destType, srcType, treat, flags, seen) ==
    IF \E e \in seen : isTypeSame(e[1], srcType) /\ isTypeSame(e[2], destType) THEN TRUE
    ELSE IF EnforceInvariance \in flags THEN isTypeSame(destType, srcType)
    ELSE LET f == ComparedAs(destType, srcType, treat)
         IN  \A name \in RequiredNames(f) :
                LET p == DeclaringPosition(f, name)
                    symbol == DeclaredAt(f, p)
                    info == CandidateMember(f, name)
                    c == Comparison([f EXCEPT !.mi = p[1]], symbol, info, FALSE)
                IN  /\ info.found
                    /\ ~ClassVarMismatch(symbol, info.symbol)
                    /\ symbol.mt.kind # "none" =>
                          /\ ~FinalMismatch(symbol, info.symbol)
                          /\ IF c.via = "nogetter" THEN FALSE
                             ELSE IF c.via = "canAssignProperty"
                                  THEN canAssignProperty(c.dest, c.src)
                             ELSE IF CanAssignTypeReenters(c.dest, c.src)
                                  THEN Conforms(c.dest.of, c.src.of, FALSE, c.flags,
                                                seen \cup {<<srcType, destType>>})
                             ELSE canAssignTypeBase(c.dest, c.src, c.flags)

\* The outermost call compares a candidate whose members match.
ConformingCandidate ==
    Conforms(frames[1].destType, frames[1].srcType,
             frames[1].treatSourceAsInstantiable, frames[1].flags, {})

\* No two calls in flight that have passed the guard stack compare the same
\* pair of types.
InFlightPairsDiffer ==
    \A i, j \in 1..Len(frames) :
        (i < j /\ frames[i].pushed /\ frames[j].pushed)
            => ~(/\ isTypeSame(frames[i].entrySrc, frames[j].entrySrc)
                 /\ isTypeSame(frames[i].destType, frames[j].destType))

\* The outermost call is returning a value.
OutermostReturns == Len(frames) = 1 /\ frames' = <<>> /\ result'.kind = "value"

\* C4: a call of canAssignClassToProtocol on a self-referential protocol
\* comes to an end; there are never more calls in flight than the recursion
\* limit leaves room for (maxTypeRecursionCount + 2, less the recursion count
\* the call was given), and no two of them compare the same pair of types;
\* when the call ends, the guard stack is what it was before the call; and
\* for a candidate whose members match, the call returns true unless the
\* protocol came with type arguments and the verification of the type
\* arguments that follows the scan has rejected them, and then it returns
\* false.
C4_SelfReferentialProtocolTerminates ==
    /\ [](SelfReferentialCall =>
            /\ Len(frames) + frames[1].entryCount <= maxTypeRecursionCount + 2
            /\ InFlightPairsDiffer)
    /\ [][(SelfReferentialCall /\ Len(frames) = 1 /\ frames' = <<>>)
             => protocolAssignmentStack' = frames[1].entryStack]_vars
    /\ [][(SelfReferentialCall /\ OutermostReturns /\ ConformingCandidate)
             => (result'.val <=> frames[1].verified # "rejected")]_vars
    /\ (SelfReferentialCall ~> frames = <<>>)

\* The self-referential comparison has come back into
\* canAssignClassToProtocol, found the cycle, and the outer call is about to
\* return true for a candidate whose members match.
C4_Witness ==
    /\ Len(frames) = 1
    /\ SelfReferentialCall
    /\ ConformingCandidate
    /\ EnforceInvariance \notin frames[1].flags
    /\ frames[1].pc = "ret"
    /\ frames[1].early = ""
    /\ frames[1].typesAreConsistent
    /\ Len(frames[1].compared) = 1
    /\ frames[1].compared[1].answer
    /\ frames[1].entryCount = 0

\* C4 as it is worded: the outermost call on a self-referential protocol is
\* about to return, the candidate's members match, and the value it
\* returns is true.
C4_AsWorded ==
    (/\ SelfReferentialCall
     /\ Len(frames) = 1
     /\ frames[1].pc = "ret"
     /\ ConformingCandidate)
        => frames[1].typesAreConsistent

\* C6: when the scan of canAssignClassToProtocol is over, every required
\* name of every protocol class of the MRO has been looked up on the
\* candidate, also those that come after a missing one, and every found
\* member with a declared type has been compared, or rejected for want of
\* a getter type; each missing name has made the result false and has its
\* own "member missing" message; each rejected member has its own "type
\* mismatch" message; and the result of the scan is the conjunction of the
\* checks of all members.
C6_MissingMemberDoesNotStopScan ==
    \A i \in ClassFrames :
        LET f == frames[i]
            missing == {n \in RequiredNames(f) : ~CandidateMember(f, n).found}
        IN  ScanIsOver(f) =>
               /\ NamesIn(f.looked) = RequiredNames(f)
               /\ NamesIn(f.compared) =
                     {n \in RequiredNames(f) \ missing :
                         DeclaringSymbol(f, n).mt.kind # "none" /\ ~RejectedForGetter(f, n)}
               /\ \A n \in RequiredNames(f) :
                     RejectedForGetter(f, n) =>
                        /\ ~f.typesAreConsistent
                        /\ f.hasDiag =>
                              \E c \in Range(f.diag.children) :
                                 Msg("memberTypeMismatch", n) \in Range(c.messages)
               /\ missing # {} => ~f.typesAreConsistent
               /\ \A n \in RequiredNames(f) :
                     CountOf(f.diag.messages, Msg("protocolMemberMissing", n))
                        = IF f.hasDiag /\ n \in missing THEN 1 ELSE 0
               /\ \A k \in 1..Len(f.compared) :
                     (f.hasDiag /\ ~f.compared[k].answer) =>
                        \E c \in Range(f.diag.children) :
                           Msg("memberTypeMismatch", f.compared[k].name) \in Range(c.messages)
               /\ f.verified # "rejected" =>
                     (f.typesAreConsistent <=> \A n \in RequiredNames(f) : MemberAgrees(f, n))
               /\ f.verified = "rejected" =>
                     (~f.typesAreConsistent /\ \A n \in RequiredNames(f) : MemberAgrees(f, n))

\* Two members are missing, each with its message, and a member that comes
\* after the first missing one has been found, compared and rejected, with
\* a message of its own.
C6_Witness ==
    /\ frames # <<>>
    /\ Top.fn = "class" /\ Top.pc = "typeargs" /\ Top.hasDiag
    /\ ~Top.typesAreConsistent
    /\ \E j, k \in 1..Len(Top.looked) :
          /\ j < k
          /\ ~Top.looked[j].found
          /\ Top.looked[k].found
          /\ \E c \in 1..Len(Top.compared) :
                Top.compared[c].name = Top.looked[k].name /\ ~Top.compared[c].answer
    /\ Len(Top.diag.messages) >= 2
    /\ Top.diag.children # <<>>

\* C7: during a call of canAssignClassToProtocol or canAssignModuleToProtocol
\* no name is looked up twice in the same place and no name is compared
\* twice; a name that has been looked up is in the checked-name set; and the
\* declaration that is compared is the first one of the MRO that requires
\* the name, never a later class's redeclaration.
C7_EachNameCheckedOnce ==
    \A i \in {j \in 1..Len(frames) : frames[j].fn # "self"} :
        LET f == frames[i]
        IN  /\ \A j, k \in 1..Len(f.looked) :
                  (j # k /\ f.looked[j].name = f.looked[k].name)
                     => f.looked[j].on # f.looked[k].on
            /\ \A j, k \in 1..Len(f.compared) :
                  j # k => f.compared[j].name # f.compared[k].name
            /\ NamesIn(f.looked) \subseteq f.checkedSymbolSet
            /\ f.cur # NoCur => f.cur.destSym = DeclaringSymbol(f, f.cur.name)

\* The scan has passed two classes that declare the same required name, and
\* the name has been looked up and compared once.
C7_Witness ==
    /\ frames # <<>>
    /\ Top.pc = "typeargs"
    /\ \E n \in Top.checkedSymbolSet :
          /\ Cardinality(DeclarationsOf(Top, n)) >= 2
          /\ Cardinality({k \in 1..Len(Top.looked) : Top.looked[k].name = n}) = 1
          /\ Cardinality({k \in 1..Len(Top.compared) : Top.compared[k].name = n}) = 1

\* C8: in no comparison, of a class or of a module, is __slots__ looked up
\* on the candidate or reported as missing.
C8_SlotsNeverLookedUp ==
    \A i \in 1..Len(frames) :
        /\ "__slots__" \notin NamesIn(frames[i].looked)
        /\ Msg("protocolMemberMissing", "__slots__") \notin Range(frames[i].diag.messages)

\* What holds of C8: canAssignClassToProtocol leaves __slots__ alone.
C8_ClassComparisonSkipsSlots ==
    \A i \in ClassFrames :
        /\ "__slots__" \notin NamesIn(frames[i].looked)
        /\ "__slots__" \notin frames[i].checkedSymbolSet
        /\ Msg("protocolMemberMissing", "__slots__") \notin Range(frames[i].diag.messages)

\* A module that has every other member of the protocol is rejected for
\* having no __slots__.
C8_ModuleRejectedForSlots ==
    /\ frames # <<>>
    /\ Top.fn = "module" /\ Top.pc = "ret"
    /\ ~Top.typesAreConsistent
    /\ Top.diag.messages = <<Msg("protocolMemberMissing", "__slots__")>>
    /\ \A k \in 1..Len(Top.compared) : Top.compared[k].answer

\* The flags a member's comparison has to carry: literal retention if the
\* candidate is a literal type, and EnforceInvariance if the member is not a
\* property and the first declaration of the protocol's symbol is a variable
\* that is not final.
ExpectedFlags(f, name, via) ==
    LET symbol == DeclaringSymbol(f, name)
    IN  IF via = "canAssignProperty" THEN {}
        ELSE
        (IF Details(f.srcType.cls).literal THEN {RetainLiteralsForTypeVar} ELSE {})
           \cup (IF /\ via = "canAssignType"
                    /\ symbol.decls # <<>>
                    /\ symbol.decls[1].type = "Variable"
                    /\ ~symbol.decls[1].isFinal
                 THEN {EnforceInvariance} ELSE {})

\* C9: in canAssignClassToProtocol every comparison of a member that is not
\* a property goes to the general assignability check with EnforceInvariance
\* added exactly when the first declaration of the protocol's symbol is a
\* variable that is not final; every other comparison by the general check
\* carries the default flags, plus literal retention only; the property
\* check is given no flags; and a comparison that fails makes the result
\* false.
C9_InvarianceForMutableVariables ==
    \A i \in ClassFrames :
        LET f == frames[i]
        IN  /\ f.cur # NoCur => f.cur.flags = ExpectedFlags(f, f.cur.name, f.cur.via)
            /\ \A k \in 1..Len(f.compared) :
                  /\ f.compared[k].flags
                        = ExpectedFlags(f, f.compared[k].name, f.compared[k].via)
                  /\ ~f.compared[k].answer => ~f.typesAreConsistent

\* One scan has compared a mutable variable under EnforceInvariance and
\* rejected it although its type is assignable, and has compared a final
\* variable and a method without the flag.
C9_Witness ==
    /\ frames # <<>>
    /\ Top.fn = "class" /\ Top.pc = "typeargs"
    /\ ~Top.typesAreConsistent
    /\ \E j, k, l \in 1..Len(Top.compared) :
          /\ Top.compared[j].via = "canAssignType"
          /\ EnforceInvariance \in Top.compared[j].flags
          /\ ~Top.compared[j].answer
          /\ LET cand == CandidateMember(Top, Top.compared[j].name).symbol
                 decl == DeclaringSymbol(Top, Top.compared[j].name)
             IN  AssignableBasic(decl.mt.cls, cand.mt.cls)
          /\ Top.compared[k].via = "canAssignType"
          /\ Top.compared[k].flags = {}
          /\ IsFinalSymbol(DeclaringSymbol(Top, Top.compared[k].name))
          /\ Top.compared[l].via = "canAssignType"
          /\ Top.compared[l].flags = {}
          /\ DeclaringSymbol(Top, Top.compared[l].name).decls[1].type = "Function"

\* The two sides of a member that was found disagree on final.
FinalDisagreement(f, name) ==
    /\ CandidateMember(f, name).found
    /\ IsFinalSymbol(DeclaringSymbol(f, name))
          # IsFinalSymbol(CandidateMember(f, name).symbol)

\* The message that names the side on which the member is final.
FinalMessage(f, name) ==
    Msg(IF IsFinalSymbol(DeclaringSymbol(f, name)) THEN "memberIsFinalInProtocol"
        ELSE "memberIsNotFinalInProtocol", name)

\* C10: in canAssignClassToProtocol, when a protocol member that has a
\* declared type is found on the candidate and the two sides disagree on
\* whether it is final, the result is false whatever the comparison of the
\* types answered, and the member's diagnostic names the side that is final.
C10_FinalDisagreementFails ==
    \A i \in ClassFrames :
        LET f == frames[i]
        IN  ScanIsOver(f) =>
               \A n \in RequiredNames(f) :
                  (FinalDisagreement(f, n) /\ DeclaringSymbol(f, n).mt.kind # "none")
                     => /\ ~f.typesAreConsistent
                        /\ n \in NamesIn(f.compared)
                        /\ f.hasDiag =>
                              \E c \in Range(f.diag.children) :
                                 FinalMessage(f, n) \in Range(c.messages)

\* The type of a member was accepted, the candidate alone declares it
\* final, and the scan has ended with the result false and the message
\* that the member is not final in the protocol.
C10_Witness ==
    /\ frames # <<>>
    /\ Top.fn = "class" /\ Top.pc = "typeargs" /\ Top.hasDiag
    /\ ~Top.typesAreConsistent
    /\ \E k \in 1..Len(Top.compared) :
          /\ Top.compared[k].answer
          /\ FinalDisagreement(Top, Top.compared[k].name)
          /\ ~IsFinalSymbol(DeclaringSymbol(Top, Top.compared[k].name))
          /\ \E c \in Range(Top.diag.children) :
                c.messages = <<Msg("memberIsNotFinalInProtocol", Top.compared[k].name)>>
    /\ \A k \in 1..Len(Top.compared) : Top.compared[k].answer
    /\ Top.diag.messages = <<>>

\* C10 as it is worded: any member that is found and on whose finality the
\* two sides disagree makes the result false.
C10_AsWorded ==
    \A i \in ClassFrames :
        ScanIsOver(frames[i]) =>
           \A n \in RequiredNames(frames[i]) :
              FinalDisagreement(frames[i], n) => ~frames[i].typesAreConsistent

\* A class variable of the protocol that the candidate has, but not as a
\* class member.
InstanceOnlyClassVar(f, name) ==
    /\ CandidateMember(f, name).found
    /\ DeclaringSymbol(f, name).classVar
    /\ ~CandidateMember(f, name).symbol.classMember

\* C11: in canAssignClassToProtocol, a class variable of the protocol that
\* the candidate has only as an instance member makes the result false and
\* gets a "class variable" message, whether or not its type was accepted
\* and whether or not the protocol member has a declared type.
C11_ClassVarNeedsClassMember ==
    \A i \in ClassFrames :
        LET f == frames[i]
        IN  ScanIsOver(f) =>
               \A n \in RequiredNames(f) :
                  InstanceOnlyClassVar(f, n)
                     => /\ ~f.typesAreConsistent
                        /\ CountOf(f.diag.messages, Msg("protocolMemberClassVar", n))
                              = IF f.hasDiag THEN 1 ELSE 0

\* A protocol member without a declared type is a class variable, the
\* candidate has it on the instance, and this alone has made the result
\* false: every comparison of types was accepted and nothing is missing.
C11_Witness ==
    /\ frames # <<>>
    /\ Top.fn = "class" /\ Top.pc = "typeargs"
    /\ ~Top.typesAreConsistent
    /\ Top.compared # <<>>
    /\ \A k \in 1..Len(Top.compared) : Top.compared[k].answer
    /\ \E n \in RequiredNames(Top) :
          /\ InstanceOnlyClassVar(Top, n)
          /\ DeclaringSymbol(Top, n).mt.kind = "none"
          /\ Top.diag.messages = <<Msg("protocolMemberClassVar", n)>>

\* The checks of all members of a scan: those of MemberAgrees for a class,
\* and for a module that each required name is there and that its type was
\* accepted if the protocol member has a declared type.
AllMembersAgree(f) ==
    \A n \in RequiredNames(f) :
        IF f.fn = "class" THEN MemberAgrees(f, n)
        ELSE /\ CandidateMember(f, n).found
             /\ DeclaringSymbol(f, n).mt.kind # "none" =>
                   \E k \in 1..Len(f.compared) :
                      f.compared[k].name = n /\ f.compared[k].answer

HasExplicitTypeArguments(f) ==
    Details(f.destType.cls).typeParameters > 0 /\ f.destType.arg # NoArg

\* C12: a structural comparison, of a class without EnforceInvariance or of
\* a module, that runs to its return answers the conjunction of the checks
\* of its members and of the verification of the type arguments: a generic
\* protocol with type arguments whose members all agree is handed to the
\* verifier and the answer is the verifier's, false if it rejects; a
\* protocol without type parameters or without type arguments is never
\* verified and the answer is exactly the conjunction of the member checks.
C12_ResultIsConjunctionWithTypeArguments ==
    \A i \in {j \in 1..Len(frames) : frames[j].fn # "self"} :
        LET f == frames[i]
        IN  (ScanIsOver(f) /\ f.pc = "ret") =>
               IF HasExplicitTypeArguments(f) /\ AllMembersAgree(f)
               THEN /\ f.verified \in {"accepted", "rejected"}
                    /\ f.typesAreConsistent <=> f.verified = "accepted"
               ELSE /\ f.verified = "no"
                    /\ f.typesAreConsistent <=> AllMembersAgree(f)

\* Every member of a generic protocol with type arguments has matched, and
\* the verifier's rejection has made the result false.
C12_Witness ==
    /\ frames # <<>>
    /\ Top.pc = "ret"
    /\ ScanIsOver(Top)
    /\ HasExplicitTypeArguments(Top)
    /\ Top.compared # <<>>
    /\ AllMembersAgree(Top)
    /\ Top.verified = "rejected"
    /\ ~Top.typesAreConsistent

ModuleFrames == {i \in 1..Len(frames) : frames[i].fn = "module"}

\* C13: a call of canAssignModuleToProtocol that runs to its return has
\* looked up every required name in the module's table, also after a
\* missing one; each missing name has made the result false and has its
\* "member missing" message; every comparison went to the general
\* assignability check with the default flags; and the call returns true
\* exactly when every required name is there with an accepted type and,
\* for a generic protocol with type arguments, the verification of the
\* type arguments accepts.
C13_ModuleSatisfiesDataProtocol ==
    \A i \in ModuleFrames :
        LET f == frames[i]
            missing == {n \in RequiredNames(f) : ~CandidateMember(f, n).found}
        IN  (ScanIsOver(f) /\ f.pc = "ret") =>
               /\ NamesIn(f.looked) = RequiredNames(f)
               /\ \A k \in 1..Len(f.looked) : f.looked[k].on = "module"
               /\ \A n \in RequiredNames(f) :
                     CountOf(f.diag.messages, Msg("protocolMemberMissing", n))
                        = IF f.hasDiag /\ n \in missing THEN 1 ELSE 0
               /\ \A k \in 1..Len(f.compared) :
                     /\ f.compared[k].via = "canAssignType"
                     /\ f.compared[k].flags = DefaultFlags
               /\ f.typesAreConsistent
                     <=> (AllMembersAgree(f) /\ f.verified # "rejected")

\* A module is accepted whose variable has another, assignable, type than
\* the protocol's mutable variable: the comparison was not invariant.
C13_Witness ==
    /\ frames # <<>>
    /\ Top.fn = "module" /\ Top.pc = "ret"
    /\ Top.typesAreConsistent
    /\ Len(Top.compared) >= 2
    /\ \E k \in 1..Len(Top.compared) :
          LET decl == DeclaringSymbol(Top, Top.compared[k].name)
              cand == CandidateMember(Top, Top.compared[k].name).symbol
          IN  /\ decl.decls[1].type = "Variable" /\ ~decl.decls[1].isFinal
              /\ decl.mt.cls # cand.mt.cls

\* C13 as it is worded: a module with every required name, each with an
\* accepted type, is accepted.
C13_AsWorded ==
    \A i \in ModuleFrames :
        (ScanIsOver(frames[i]) /\ frames[i].pc = "ret" /\ AllMembersAgree(frames[i]))
            => frames[i].typesAreConsistent

SelfFrames == {i \in 1..Len(frames) : frames[i].fn = "self"}

\* The comparison that canAssignProtocolClassToSelf owes a member of the
\* protocol's own table: none for a member without a declared type, the
\* property check for a property, the general check for any other member,
\* under invariance if and only if its first declaration is a variable
\* that is not final.
SelfMemberPasses(symbol, destArg, srcArg) ==
    LET dest == partiallySpecializeType(symbol.mt, destArg)
        src == partiallySpecializeType(symbol.mt, srcArg)
    IN  IF symbol.mt.kind = "none" THEN TRUE
        ELSE IF symbol.mt.kind = "prop" THEN canAssignProperty(dest, src)
        ELSE canAssignTypeBase(dest, src,
                               IF /\ symbol.decls # <<>>
                                  /\ symbol.decls[1].type = "Variable"
                                  /\ ~symbol.decls[1].isFinal
                               THEN {EnforceInvariance} ELSE {})

GenericProtocolBases(c) ==
    {b \in Range(baseClasses(c)) :
        /\ Details(b).isClass /\ Details(b).isProtocol
        /\ Details(b).typeParameters > 0
        /\ b \notin {"object", "Protocol"}}

RECURSIVE SelfAssignable(_, _, _)
SelfAssignable(c, destArg, srcArg) ==
    /\ \A k \in 1..Len(Details(c).fields) :
          LET symbol == Details(c).fields[k]
          IN  (symbol.classMember /\ ~symbol.ignored)
                 => SelfMemberPasses(symbol, destArg, srcArg)
    /\ \A b \in GenericProtocolBases(c) : SelfAssignable(b, destArg, srcArg)

\* C14: canAssignProtocolClassToSelf returns true if and only if every class
\* member of the protocol's own table that is not ignored passes its
\* comparison with the member of the same name of the other specialization
\* and the function answers true for every generic protocol base class
\* other than object and Protocol, specialized for both sides; a property
\* goes to the property check, any other member to the general check with
\* EnforceInvariance exactly when its first declaration is a variable that
\* is not final, and with no other flag.
C14_ProtocolClassToSelf ==
    \A i \in SelfFrames :
        LET f == frames[i]
        IN  /\ f.pc = "ret" =>
                  (f.typesAreConsistent
                      <=> SelfAssignable(f.destType.cls, f.destType.arg, f.srcType.arg))
            /\ f.destType.cls = f.srcType.cls
            /\ \A k \in 1..Len(f.compared) :
                  LET symbol == GetField(Details(f.destType.cls).fields, f.compared[k].name)
                  IN  /\ symbol.classMember /\ ~symbol.ignored
                      /\ f.compared[k].via =
                            IF symbol.mt.kind = "prop" THEN "canAssignProperty"
                            ELSE "canAssignType"
                      /\ f.compared[k].flags =
                            IF /\ symbol.mt.kind # "prop"
                               /\ symbol.decls[1].type = "Variable"
                               /\ ~symbol.decls[1].isFinal
                            THEN {EnforceInvariance} ELSE {}

\* A protocol whose own members all pass, covariantly, is rejected because
\* a generic protocol base class of it has a mutable variable of the type
\* parameter.
C14_Witness ==
    /\ Len(frames) = 1
    /\ Top.fn = "self" /\ Top.pc = "ret"
    /\ Top.destType.arg # Top.srcType.arg
    /\ Top.compared # <<>>
    /\ \A k \in 1..Len(Top.compared) : Top.compared[k].answer
    /\ ~Top.typesAreConsistent
    /\ \E b \in GenericProtocolBases(Top.destType.cls) :
          SelfAssignable(b, Top.destType.arg, Top.srcType.arg)

\* The same call made without a diagnostic sink: the state of a call with
\* what it has been given and what it has written as diagnostics left out.
WithoutSink(f) == [f EXCEPT !.hasDiag = FALSE, !.diag = EmptyAddendum]
WithoutDiagnostics(res) == [res EXCEPT !.diag = EmptyAddendum]

\* C15: the run with a diagnostic sink and the run without one go in step.
\* Whatever the innermost call of canAssignClassToProtocol or
\* canAssignModuleToProtocol does next (skip, look up, report missing,
\* compare with which types and flags, take the answer in, decide to verify
\* the type arguments) leaves it, sink aside, in the state in which the same
\* step leaves the call made without a sink, with the same result so far;
\* and the call without a sink never writes to one.
C15_ResultIndependentOfDiagnosticSink ==
    (frames # <<>> /\ Top.fn # "self") =>
        LET f == Top
            b == WithoutSink(Top)
        IN  /\ (f.pc = "scan" /\ f.fn = "class")
                  => /\ WithoutSink(ScanClassMember(f)) = ScanClassMember(b)
                     /\ ScanClassMember(b).diag = EmptyAddendum
            /\ (f.pc = "scan" /\ f.fn = "module")
                  => /\ WithoutSink(ScanModuleMember(f)) = ScanModuleMember(b)
                     /\ ScanModuleMember(b).diag = EmptyAddendum
            /\ (f.pc = "await" /\ result.kind = "value" /\ f.fn = "class")
                  => /\ WithoutSink(ClassMemberResult(f, result))
                           = ClassMemberResult(b, WithoutDiagnostics(result))
                     /\ ClassMemberResult(b, WithoutDiagnostics(result)).diag = EmptyAddendum
            /\ (f.pc = "await" /\ result.kind = "value" /\ f.fn = "module")
                  => /\ WithoutSink(ModuleMemberResult(f, result))
                           = ModuleMemberResult(b, WithoutDiagnostics(result))
                     /\ ModuleMemberResult(b, WithoutDiagnostics(result)).diag = EmptyAddendum
            /\ f.pc = "typeargs" => NeedsTypeArgumentCheck(f) = NeedsTypeArgumentCheck(b)
            /\ ~f.hasDiag => f.diag = EmptyAddendum

\* A call with a sink has written a "member missing" message and the
\* addendum of a rejected member, and its result is false.
C15_Witness ==
    /\ frames # <<>>
    /\ Top.fn = "class" /\ Top.pc = "typeargs"
    /\ Top.hasDiag
    /\ ~Top.typesAreConsistent
    /\ Top.diag.messages # <<>>
    /\ \E k \in 1..Len(Top.diag.children) : Top.diag.children[k].messages # <<>>

\* The symbols of the own member tables of the classes of the protocol's
\* MRO that are marked as protocol classes.
ProtocolSymbols(f) == {DeclaredAt(f, p) : p \in Declarations(f)}

SkippedByRule(f, symbol) ==
    \/ symbol.ignored
    \/ symbol.name = "__slots__"
    \/ symbol.name = "__class_getitem__" /\ ~f.treatSourceAsInstantiable

\* C16: when the scan of canAssignClassToProtocol is over, the names that
\* were resolved on the candidate are exactly the names of the class
\* members in the own tables of the MRO classes marked as protocol classes,
\* minus those that are ignored for the match, __slots__, and
\* __class_getitem__ when the candidate is compared as an instance; each of
\* these names that the candidate lacks has made the result false; the
\* members of a class of the MRO that is not a protocol class are not
\* resolved.
C16_ResolvedNamesAreProtocolMembers ==
    \A i \in ClassFrames :
        LET f == frames[i]
            names == {s.name : s \in {t \in ProtocolSymbols(f) :
                                         t.classMember /\ ~SkippedByRule(f, t)}}
        IN  ScanIsOver(f) =>
               /\ NamesIn(f.looked) = names
               /\ f.checkedSymbolSet = names
               /\ \A n \in names : ~CandidateMember(f, n).found => ~f.typesAreConsistent

\* The protocol has a class in its MRO that is not a protocol class and has
\* a member, an ignored member, __slots__, and __class_getitem__, which has
\* been resolved because the candidate is compared as a class object.
C16_Witness ==
    /\ frames # <<>>
    /\ Top.fn = "class" /\ Top.pc = "typeargs"
    /\ Top.treatSourceAsInstantiable
    /\ "__class_getitem__" \in NamesIn(Top.looked)
    /\ \E s \in ProtocolSymbols(Top) : s.ignored
    /\ \E s \in ProtocolSymbols(Top) : s.name = "__slots__"
    /\ \E k \in 1..Len(DestMro(Top)) :
          /\ Details(DestMro(Top)[k]).isClass
          /\ ~Details(DestMro(Top)[k]).isProtocol
          /\ \E j \in 1..Len(Details(DestMro(Top)[k]).fields) :
                Details(DestMro(Top)[k]).fields[j].name \notin NamesIn(Top.looked)

\* C16 as it is worded: every name of those tables is resolved unless one
\* of the three rules skips it.
C16_AsWorded ==
    \A i \in ClassFrames :
        ScanIsOver(frames[i]) =>
           NamesIn(frames[i].looked)
              = {s.name : s \in {t \in ProtocolSymbols(frames[i]) :
                                    ~SkippedByRule(frames[i], t)}}

OnMetaclass(f, name) ==
    lookUpClassMember(ClassT(Details(f.srcType.cls).metaclass, NoArg, 0), name).found

OnClass(f, name) == lookUpClassMember(f.srcType, name).found

HasMetaclass(f) == Details(f.srcType.cls).metaclass # NoClass

HasMetaclassToSearch(f) ==
    /\ f.treatSourceAsInstantiable
    /\ HasMetaclass(f)
    /\ Details(Details(f.srcType.cls).metaclass).isClass

\* The call has failed while it resolved the name: not every lookup that
\* applies to the name was made, or the evaluator failed on the member.
FailedResolving(i, name) ==
    /\ i = Len(frames)
    /\ frames[i].pc = "await"
    /\ result.kind = "throw"
    /\ frames[i].looked # <<>>
    /\ frames[i].looked[Len(frames[i].looked)].name = name

\* C17: the lookups of canAssignClassToProtocol, in the order they were
\* made.  The metaclass is searched only when the candidate is compared as a
\* class object and has a metaclass that is an instantiable class, and then
\* it is the first lookup of the name; a hit there is not followed by a lookup in the candidate's own
\* MRO, the member is marked as coming from the metaclass and a method is
\* bound to the candidate class; the candidate's MRO is searched first when
\* there is no metaclass to search, otherwise only right after the metaclass
\* has failed; the name is reported missing exactly when every lookup that
\* applies to it has failed (and no collaborator has failed meanwhile).
C17_MetaclassIsSearchedFirst ==
    \A i \in ClassFrames :
        LET f == frames[i]
            prior(k) == {j \in 1..(k - 1) : f.looked[j].name = f.looked[k].name}
        IN  /\ \A k \in 1..Len(f.looked) :
                  LET l == f.looked[k]
                  IN  /\ l.on \in {"metaclass", "class"}
                      /\ l.on = "metaclass" =>
                            /\ HasMetaclassToSearch(f)
                            /\ prior(k) = {}
                            /\ l.found = OnMetaclass(f, l.name)
                            /\ l.found => \A j \in (k + 1)..Len(f.looked) :
                                             f.looked[j].name # l.name
                      /\ l.on = "class" =>
                            /\ l.found = OnClass(f, l.name)
                            /\ IF HasMetaclassToSearch(f)
                               THEN /\ prior(k) = {k - 1}
                                    /\ f.looked[k - 1] = Looked(l.name, "metaclass", FALSE)
                               ELSE prior(k) = {}
            /\ \A k \in 1..Len(f.compared) :
                  LET c == f.compared[k]
                  IN  /\ c.fromMeta <=> (HasMetaclassToSearch(f) /\ OnMetaclass(f, c.name))
                      /\ (c.fromMeta /\ c.recv # "") => c.recv = "class"
            /\ \A n \in {m \in NamesIn(f.looked) : ~FailedResolving(i, m)} :
                  (Msg("protocolMemberMissing", n) \in Range(f.diag.messages))
                     <=> /\ f.hasDiag
                         /\ ~OnClass(f, n)
                         /\ ~(HasMetaclassToSearch(f) /\ OnMetaclass(f, n))

\* A class object with a metaclass: one method was found on the metaclass,
\* although the class has a method of that name too, and was compared as
\* bound to the class; another member was not on the metaclass and was
\* found in the class's own MRO.
C17_Witness ==
    /\ frames # <<>>
    /\ Top.fn = "class" /\ Top.pc = "typeargs"
    /\ HasMetaclassToSearch(Top)
    /\ \E k \in 1..Len(Top.compared) :
          /\ Top.compared[k].fromMeta
          /\ Top.compared[k].recv = "class"
          /\ OnClass(Top, Top.compared[k].name)
    /\ \E k \in 2..Len(Top.looked) :
          /\ Top.looked[k].on = "class" /\ Top.looked[k].found
          /\ Top.looked[k - 1] = Looked(Top.looked[k].name, "metaclass", FALSE)

\* C17 as it is worded: a candidate compared as a class object that has a
\* metaclass has every name looked up on the metaclass before its own MRO.
C17_AsWorded ==
    \A i \in ClassFrames :
        \A k \in 1..Len(frames[i].looked) :
            (/\ frames[i].looked[k].on = "class"
             /\ frames[i].treatSourceAsInstantiable
             /\ HasMetaclass(frames[i]))
                => /\ k > 1
                   /\ frames[i].looked[k - 1]
                         = Looked(frames[i].looked[k].name, "metaclass", FALSE)

\* The place of a call's own entry on the guard stack.
OwnEntryIndex(f) == Len(f.entryStack) + 1

\* C18: at every point of nested calls of canAssignClassToProtocol no two
\* entries of the guard stack have the same candidate and the same protocol
\* type; the entry that a call has pushed is on the stack, above the entries
\* that were there when the call was entered, until the call ends; and
\* every change of the stack is a push on top or the removal of the top
\* entry, which is the entry of the call that ends.
C18_GuardStackDiscipline ==
    /\ [](\A j, k \in 1..Len(protocolAssignmentStack) :
             j < k => ~SameEntry(protocolAssignmentStack[j],
                                 protocolAssignmentStack[k].srcType,
                                 protocolAssignmentStack[k].destType))
    /\ [](\A i \in ClassFrames :
             frames[i].pushed =>
                /\ Len(protocolAssignmentStack) >= OwnEntryIndex(frames[i])
                /\ SubSeq(protocolAssignmentStack, 1, OwnEntryIndex(frames[i]) - 1)
                      = frames[i].entryStack
                /\ protocolAssignmentStack[OwnEntryIndex(frames[i])]
                      = StackEntry(frames[i].entrySrc, frames[i].destType))
    /\ [][\/ protocolAssignmentStack' = protocolAssignmentStack
          \/ /\ Len(protocolAssignmentStack') = Len(protocolAssignmentStack) + 1
             /\ SubSeq(protocolAssignmentStack', 1, Len(protocolAssignmentStack))
                   = protocolAssignmentStack
          \/ /\ protocolAssignmentStack # <<>>
             /\ protocolAssignmentStack'
                   = SubSeq(protocolAssignmentStack, 1, Len(protocolAssignmentStack) - 1)
             /\ Len(frames') < Len(frames)
             /\ Top.pushed
             /\ protocolAssignmentStack[Len(protocolAssignmentStack)]
                   = StackEntry(Top.entrySrc, Top.destType)]_vars

\* Two calls are in flight, each with its own entry on the stack, and the
\* inner one is about to return and remove the top entry.
C18_Witness ==
    /\ Len(frames) >= 2
    /\ Len(protocolAssignmentStack) = 2
    /\ Top.fn = "class" /\ Top.pc = "ret" /\ Top.pushed
    /\ \E i \in 1..(Len(frames) - 1) : frames[i].pushed

====
